---- MODULE Spec2Model ----
(***************************************************************************)
(* Model of the SparseDirectedGraph of graph/src/sdg.rs (the hash-consed,  *)
(* reference-counted sparse voxel octree) and of the Zorder3d path codec   *)
(* of graph/src/basic_node3d.rs.                                           *)
(***************************************************************************)
EXTENDS Integers, Sequences, FiniteSets, TLC

\* ---------------------------------------------------------------- bounds
MaxSlots  == 5      \* arena slots the model lets the Pond grow to
MaxDepth  == 2      \* longest path handed to set_node
MaxCalls  == 4      \* get_root and set_node calls in one behaviour
MaxCodecDepth == 2  \* deepest octree the codec is run on
MaxAny    == 2      \* calls of a caller that keeps no discipline
MaxMix    == 3      \* calls in one behaviour of the mixed read and write runs

\* ------------------------------------------------------ program constants
COUNT == 8                  \* Zorder3d::COUNT
NumLeaves == 2              \* the leaves the engine registers: empty and full
\* A u32 is held as the two's-complement integer with the same 32 bits, so
\* u32::MAX is -1: 0 - 1 wraps to U32Max and U32Max + 1 wraps to 0.
U32Max == -1

Slot          == 0 .. (MaxSlots - 1)
Children      == 0 .. (COUNT - 1)       \* Zorder3d as u8
PathChildren  == {0, COUNT - 1}         \* the selectors set_node paths are built from
None          == <<>>                   \* a Pond slot holding no node
Dead          == -1                     \* what an unwrap() of None stands for
NotFound      == -2                     \* Option::None of find_index

VARIABLES
  nodes,          \* Pond<T>: slot -> node (8 child indices) or None
  ref_count,      \* Vec<u32>, element i+1 is the count of index i
  index_lookup,   \* AHashMap<T, Index>: function node content -> index
  leaves,         \* Vec<Index>, kept ascending by add_leaf
  roots,          \* root references the callers hold, per index
  fault,          \* "none", or the panic that ended the program
  calls,          \* get_root and set_node calls made so far
  last,           \* the call made by the last step and what it returned
  cell, depth, path, out, cpc,  \* the codec run: input, path, result, position
  scen            \* the caller's side of a scenario: its parameters and progress

gvars == <<nodes, ref_count, index_lookup, leaves, roots, fault, calls, last>>
cvars == <<cell, depth, path, out, cpc>>
vars  == <<nodes, ref_count, index_lookup, leaves, roots, fault, calls, last,
           cell, depth, path, out, cpc, scen>>

\* ---------------------------------------------------------- BasicNode3d
\* Node::new(&vec![idx; COUNT])
NodeNew(idx) == [i \in 1 .. COUNT |-> idx]
\* Node::get
NodeGet(node, c) == node[c + 1]
\* with_child writing the neighbouring child
WithChild_Shifted(node, c, idx) == [node EXCEPT ![((c + 1) % COUNT) + 1] = idx]
\* Node::with_child
WithChild(node, c, idx) == [node EXCEPT ![c + 1] = idx]

\* ------------------------------------------------------------ the graph
\* The graph as a value; checks is the build's overflow-checks setting, full
\* records that an allocation did not fit into the MaxSlots slots of the model
\* (the call is then left out of the behaviours).
Graph(ck) ==
  [nodes |-> nodes, ref_count |-> ref_count, index_lookup |-> index_lookup,
   leaves |-> leaves, fault |-> "none", full |-> FALSE, checks |-> ck]

Live(ns, idx) == idx \in DOMAIN ns /\ ns[idx] # None

\* Pond::next_allocated / Pond::alloc: the first available free slot
FreeSlots(ns) == {i \in DOMAIN ns : ns[i] = None}
NextAllocated(ns) == CHOOSE i \in FreeSlots(ns) : \A j \in FreeSlots(ns) : i <= j

\* slice::binary_search on the leaf registry: Ok(position) or NotFound
RECURSIVE BinarySearch(_, _, _, _)
BinarySearch(s, x, lo, hi) ==
  IF lo >= hi THEN NotFound
  ELSE LET mid == lo + ((hi - lo) \div 2)
       IN IF s[mid + 1] = x THEN mid
          ELSE IF s[mid + 1] < x THEN BinarySearch(s, x, mid + 1, hi)
          ELSE BinarySearch(s, x, lo, mid)

is_leaf(g, idx) == BinarySearch(g.leaves, idx, 0, Len(g.leaves)) # NotFound

\* find_index that never finds the candidate
find_index_Miss(g, node) == NotFound
find_index(g, node) ==
  IF node \in DOMAIN g.index_lookup THEN g.index_lookup[node] ELSE NotFound

MapInsert(m, k, v) == [x \in (DOMAIN m) \cup {k} |-> IF x = k THEN v ELSE m[x]]
MapRemove(m, k)    == [x \in (DOMAIN m) \ {k} |-> m[x]]

\* child(): node(idx).get(child); node() unwraps the slot
child(ns, idx, c) == IF Live(ns, idx) THEN NodeGet(ns[idx], c) ELSE Dead

\* get_trail taking every step from the head instead of from the trail's end
RECURSIVE TrailLoop_FromHead(_, _, _, _)
TrailLoop_FromHead(ns, trail, p, step) ==
  IF step > Len(p) THEN trail
  ELSE TrailLoop_FromHead(ns, Append(trail, child(ns, trail[1], p[step])), p, step + 1)

\* get_trail ending the walk at the first node that is its own selected child
RECURSIVE TrailLoop_StopAtLeaf(_, _, _, _)
TrailLoop_StopAtLeaf(ns, trail, p, step) ==
  IF step > Len(p) THEN trail
  ELSE LET c == child(ns, trail[step], p[step])
       IN IF c = trail[step] THEN trail
          ELSE TrailLoop_StopAtLeaf(ns, Append(trail, c), p, step + 1)

RECURSIVE TrailLoop(_, _, _, _)
TrailLoop(ns, trail, p, step) ==
  IF step > Len(p) THEN trail
  ELSE TrailLoop(ns, Append(trail, child(ns, trail[step], p[step])), p, step + 1)

get_trail(ns, head, p) == TrailLoop(ns, <<head>>, p, 1)

descend(ns, head, p) == LET t == get_trail(ns, head, p) IN t[Len(t)]

get_ref(g, idx) == g.ref_count[idx + 1]

add_ref(g, idx) ==
  IF g.fault # "none" \/ g.full THEN g
  ELSE LET n  == Len(g.ref_count)
           rc == IF idx >= n
                   THEN g.ref_count \o [i \in 1 .. (idx + 1 - n) |-> 0]
                   ELSE g.ref_count
       IN IF rc[idx + 1] = U32Max /\ g.checks
            THEN [g EXCEPT !.ref_count = rc, !.fault = "add overflow"]
            ELSE [g EXCEPT !.ref_count = [rc EXCEPT ![idx + 1] = @ + 1]]

\* the cascade leaving the table entry of a freed slot in place
RECURSIVE DecrementLoop_KeepEntry(_, _)
DecrementLoop_KeepEntry(g, queue) ==
  IF g.fault # "none" \/ g.full \/ queue = <<>> THEN g
  ELSE LET cur_idx == queue[Len(queue)]
           rest    == SubSeq(queue, 1, Len(queue) - 1)
       IN IF cur_idx < 0 \/ cur_idx >= Len(g.ref_count)
            THEN [g EXCEPT !.fault = "index out of bounds"]
          ELSE IF g.ref_count[cur_idx + 1] = 0 /\ g.checks
            THEN [g EXCEPT !.fault = "subtract overflow"]
          ELSE LET g1 == [g EXCEPT !.ref_count[cur_idx + 1] = @ - 1]
               IN IF get_ref(g1, cur_idx) = 0 /\ ~is_leaf(g1, cur_idx)
                    THEN IF ~Live(g1.nodes, cur_idx)
                           THEN [g1 EXCEPT !.fault = "unwrap on None"]
                           ELSE LET old_node == g1.nodes[cur_idx]
                                    g2 == [g1 EXCEPT !.nodes[cur_idx] = None]
                                IN DecrementLoop_KeepEntry(g2, rest \o old_node)
                    ELSE DecrementLoop_KeepEntry(g1, rest)

\* the cascade freeing a slot without decrementing its children
RECURSIVE DecrementLoop_NoCascade(_, _)
DecrementLoop_NoCascade(g, queue) ==
  IF g.fault # "none" \/ g.full \/ queue = <<>> THEN g
  ELSE LET cur_idx == queue[Len(queue)]
           rest    == SubSeq(queue, 1, Len(queue) - 1)
       IN IF cur_idx < 0 \/ cur_idx >= Len(g.ref_count)
            THEN [g EXCEPT !.fault = "index out of bounds"]
          ELSE IF g.ref_count[cur_idx + 1] = 0 /\ g.checks
            THEN [g EXCEPT !.fault = "subtract overflow"]
          ELSE LET g1 == [g EXCEPT !.ref_count[cur_idx + 1] = @ - 1]
               IN IF get_ref(g1, cur_idx) = 0 /\ ~is_leaf(g1, cur_idx)
                    THEN IF ~Live(g1.nodes, cur_idx)
                           THEN [g1 EXCEPT !.fault = "unwrap on None"]
                           ELSE LET old_node == g1.nodes[cur_idx]
                                    g2 == [g1 EXCEPT
                                             !.nodes[cur_idx] = None,
                                             !.index_lookup = MapRemove(@, old_node)]
                                IN DecrementLoop_NoCascade(g2, rest)
                    ELSE DecrementLoop_NoCascade(g1, rest)

\* the cascade without the is_leaf test
RECURSIVE DecrementLoop_FreeLeaf(_, _)
DecrementLoop_FreeLeaf(g, queue) ==
  IF g.fault # "none" \/ g.full \/ queue = <<>> THEN g
  ELSE LET cur_idx == queue[Len(queue)]
           rest    == SubSeq(queue, 1, Len(queue) - 1)
       IN IF cur_idx < 0 \/ cur_idx >= Len(g.ref_count)
            THEN [g EXCEPT !.fault = "index out of bounds"]
          ELSE IF g.ref_count[cur_idx + 1] = 0 /\ g.checks
            THEN [g EXCEPT !.fault = "subtract overflow"]
          ELSE LET g1 == [g EXCEPT !.ref_count[cur_idx + 1] = @ - 1]
               IN IF get_ref(g1, cur_idx) = 0
                    THEN IF ~Live(g1.nodes, cur_idx)
                           THEN [g1 EXCEPT !.fault = "unwrap on None"]
                           ELSE LET old_node == g1.nodes[cur_idx]
                                    g2 == [g1 EXCEPT
                                             !.nodes[cur_idx] = None,
                                             !.index_lookup = MapRemove(@, old_node)]
                                IN DecrementLoop_FreeLeaf(g2, rest \o old_node)
                    ELSE DecrementLoop_FreeLeaf(g1, rest)

RECURSIVE DecrementLoop(_, _)
DecrementLoop(g, queue) ==
  IF g.fault # "none" \/ g.full \/ queue = <<>> THEN g
  ELSE LET cur_idx == queue[Len(queue)]
           rest    == SubSeq(queue, 1, Len(queue) - 1)
       IN IF cur_idx < 0 \/ cur_idx >= Len(g.ref_count)
            THEN [g EXCEPT !.fault = "index out of bounds"]
          ELSE IF g.ref_count[cur_idx + 1] = 0 /\ g.checks
            THEN [g EXCEPT !.fault = "subtract overflow"]
          ELSE LET g1 == [g EXCEPT !.ref_count[cur_idx + 1] = @ - 1]
               IN IF get_ref(g1, cur_idx) = 0 /\ ~is_leaf(g1, cur_idx)
                    THEN IF ~Live(g1.nodes, cur_idx)
                           THEN [g1 EXCEPT !.fault = "unwrap on None"]
                           ELSE LET old_node == g1.nodes[cur_idx]
                                    g2 == [g1 EXCEPT
                                             !.nodes[cur_idx] = None,
                                             !.index_lookup = MapRemove(@, old_node)]
                                IN DecrementLoop(g2, rest \o old_node)
                    ELSE DecrementLoop(g1, rest)

decrement_ref(g, idx) == DecrementLoop(g, <<idx>>)

\* one turn of the while loop of decrement_ref with the next index read but
\* left on the work-stack
DecrementStep_Peek(g, queue) ==
  LET cur_idx == queue[Len(queue)]
  IN IF cur_idx < 0 \/ cur_idx >= Len(g.ref_count)
       THEN [g |-> [g EXCEPT !.fault = "index out of bounds"], queue |-> queue, freed |-> <<>>]
     ELSE IF g.ref_count[cur_idx + 1] = 0 /\ g.checks
       THEN [g |-> [g EXCEPT !.fault = "subtract overflow"], queue |-> queue, freed |-> <<>>]
     ELSE LET g1 == [g EXCEPT !.ref_count[cur_idx + 1] = @ - 1]
          IN IF get_ref(g1, cur_idx) = 0 /\ ~is_leaf(g1, cur_idx)
               THEN IF ~Live(g1.nodes, cur_idx)
                      THEN [g |-> [g1 EXCEPT !.fault = "unwrap on None"],
                            queue |-> queue, freed |-> <<>>]
                      ELSE LET old_node == g1.nodes[cur_idx]
                           IN [g |-> [g1 EXCEPT !.nodes[cur_idx] = None,
                                                !.index_lookup = MapRemove(@, old_node)],
                               queue |-> queue \o old_node, freed |-> <<cur_idx>>]
               ELSE [g |-> g1, queue |-> queue, freed |-> <<>>]

\* one turn of the while loop of decrement_ref: pop an index, decrement its
\* count, and at zero free a slot that is no leaf and push its children
DecrementStep(g, queue) ==
  LET cur_idx == queue[Len(queue)]
      rest    == SubSeq(queue, 1, Len(queue) - 1)
  IN IF cur_idx < 0 \/ cur_idx >= Len(g.ref_count)
       THEN [g |-> [g EXCEPT !.fault = "index out of bounds"], queue |-> rest, freed |-> <<>>]
     ELSE IF g.ref_count[cur_idx + 1] = 0 /\ g.checks
       THEN [g |-> [g EXCEPT !.fault = "subtract overflow"], queue |-> rest, freed |-> <<>>]
     ELSE LET g1 == [g EXCEPT !.ref_count[cur_idx + 1] = @ - 1]
          IN IF get_ref(g1, cur_idx) = 0 /\ ~is_leaf(g1, cur_idx)
               THEN IF ~Live(g1.nodes, cur_idx)
                      THEN [g |-> [g1 EXCEPT !.fault = "unwrap on None"],
                            queue |-> rest, freed |-> <<>>]
                      ELSE LET old_node == g1.nodes[cur_idx]
                           IN [g |-> [g1 EXCEPT !.nodes[cur_idx] = None,
                                                !.index_lookup = MapRemove(@, old_node)],
                               queue |-> rest \o old_node, freed |-> <<cur_idx>>]
               ELSE [g |-> g1, queue |-> rest, freed |-> <<>>]

\* add_node counting all children but the last
RECURSIVE AddRefs_SkipLast(_, _, _)
AddRefs_SkipLast(g, node, i) ==
  IF i > COUNT - 1 THEN g ELSE AddRefs_SkipLast(add_ref(g, node[i]), node, i + 1)

RECURSIVE AddRefs(_, _, _)
AddRefs(g, node, i) ==
  IF i > COUNT THEN g ELSE AddRefs(add_ref(g, node[i]), node, i + 1)

\* add_node without the table insert
add_node_NoInsert(g, node) ==
  IF g.fault # "none" \/ g.full THEN [g |-> g, idx |-> Dead]
  ELSE IF FreeSlots(g.nodes) = {} THEN [g |-> [g EXCEPT !.full = TRUE], idx |-> Dead]
  ELSE LET idx == NextAllocated(g.nodes)
           g1  == [g EXCEPT !.nodes[idx] = node]
           g2  == AddRefs(g1, node, 1)
       IN [g |-> g2, idx |-> idx]

\* add_node writing the node into two slots
add_node_Spare(g, node) ==
  IF g.fault # "none" \/ g.full THEN [g |-> g, idx |-> Dead]
  ELSE IF FreeSlots(g.nodes) = {} THEN [g |-> [g EXCEPT !.full = TRUE], idx |-> Dead]
  ELSE LET idx == NextAllocated(g.nodes)
           g1  == [g EXCEPT !.nodes[idx] = node]
           g2  == AddRefs(g1, node, 1)
           g3  == IF g2.fault # "none" THEN g2
                  ELSE [g2 EXCEPT !.index_lookup = MapInsert(@, node, idx)]
           g4  == IF FreeSlots(g3.nodes) = {} THEN g3
                  ELSE [g3 EXCEPT !.nodes[NextAllocated(g3.nodes)] = node]
       IN [g |-> g4, idx |-> idx]

add_node(g, node) ==
  IF g.fault # "none" \/ g.full THEN [g |-> g, idx |-> Dead]
  ELSE IF FreeSlots(g.nodes) = {} THEN [g |-> [g EXCEPT !.full = TRUE], idx |-> Dead]
  ELSE LET idx == NextAllocated(g.nodes)
           g1  == [g EXCEPT !.nodes[idx] = node]
           g2  == AddRefs(g1, node, 1)
           g3  == IF g2.fault # "none" THEN g2
                  ELSE [g2 EXCEPT !.index_lookup = MapInsert(@, node, idx)]
       IN [g |-> g3, idx |-> idx]

\* the rebuild writing the new content into the slot it read the old one from
RECURSIVE PropagateLoop_InPlace(_, _, _, _, _)
PropagateLoop_InPlace(g, p, trail, cur_depth, new_child) ==
  IF cur_depth < 0 \/ g.fault # "none" \/ g.full THEN [g |-> g, idx |-> new_child]
  ELSE LET slot     == trail[cur_depth + 1]
           new_node == WithChild(g.nodes[slot], p[cur_depth + 1], new_child)
       IN PropagateLoop_InPlace([g EXCEPT !.nodes[slot] = new_node],
                                p, trail, cur_depth - 1, slot)

RECURSIVE PropagateLoop(_, _, _, _, _)
PropagateLoop(g, p, trail, cur_depth, new_child) ==
  IF cur_depth < 0 \/ g.fault # "none" \/ g.full THEN [g |-> g, idx |-> new_child]
  ELSE LET new_node == WithChild(g.nodes[trail[cur_depth + 1]], p[cur_depth + 1], new_child)
           found    == find_index(g, new_node)
           r        == IF found # NotFound THEN [g |-> g, idx |-> found]
                       ELSE add_node(g, new_node)
       IN PropagateLoop(r.g, p, trail, cur_depth - 1, r.idx)

\* the loop of propagate_change again, keeping for every level, deepest
\* first, the index it settled on and whether find_index missed
RECURSIVE PropagateSteps(_, _, _, _, _, _)
PropagateSteps(g, p, trail, cur_depth, new_child, steps) ==
  IF cur_depth < 0 \/ g.fault # "none" \/ g.full THEN steps
  ELSE LET new_node == WithChild(g.nodes[trail[cur_depth + 1]], p[cur_depth + 1], new_child)
           found    == find_index(g, new_node)
           r        == IF found # NotFound THEN [g |-> g, idx |-> found]
                       ELSE add_node(g, new_node)
       IN PropagateSteps(r.g, p, trail, cur_depth - 1, r.idx,
                         Append(steps, [idx |-> r.idx, miss |-> found = NotFound]))

propagate_change(g, p, trail, new_child) ==
  PropagateLoop(g, p, trail, Len(p) - 1, new_child)

\* set_node whose short-circuit returns new_idx
set_node_ReturnNew(g, head, p, new_idx) ==
  LET trail == get_trail(g.nodes, head, p)
  IN IF \E i \in 1 .. Len(trail) : trail[i] = Dead
       THEN [g |-> [g EXCEPT !.fault = "unwrap on None"], idx |-> Dead]
     ELSE IF trail[Len(trail)] = new_idx THEN [g |-> g, idx |-> new_idx]
     ELSE LET r  == propagate_change(g, p, trail, new_idx)
              g1 == add_ref(r.g, r.idx)
              g2 == decrement_ref(g1, head)
          IN [g |-> g2, idx |-> IF g2.fault = "none" THEN r.idx ELSE Dead]

\* set_node that takes no reference on the new head
set_node_NoAddRef(g, head, p, new_idx) ==
  LET trail == get_trail(g.nodes, head, p)
  IN IF \E i \in 1 .. Len(trail) : trail[i] = Dead
       THEN [g |-> [g EXCEPT !.fault = "unwrap on None"], idx |-> Dead]
     ELSE IF trail[Len(trail)] = new_idx THEN [g |-> g, idx |-> head]
     ELSE LET r  == propagate_change(g, p, trail, new_idx)
              g2 == decrement_ref(r.g, head)
          IN [g |-> g2, idx |-> IF g2.fault = "none" THEN r.idx ELSE Dead]

\* set_node running the decrement cascade before it counts the new head
set_node_DecFirst(g, head, p, new_idx) ==
  LET trail == get_trail(g.nodes, head, p)
  IN IF \E i \in 1 .. Len(trail) : trail[i] = Dead
       THEN [g |-> [g EXCEPT !.fault = "unwrap on None"], idx |-> Dead]
     ELSE IF trail[Len(trail)] = new_idx THEN [g |-> g, idx |-> head]
     ELSE LET r  == propagate_change(g, p, trail, new_idx)
              g1 == decrement_ref(r.g, head)
              g2 == add_ref(g1, r.idx)
          IN [g |-> g2, idx |-> IF g2.fault = "none" THEN r.idx ELSE Dead]

set_node(g, head, p, new_idx) ==
  LET trail == get_trail(g.nodes, head, p)
  IN IF \E i \in 1 .. Len(trail) : trail[i] = Dead
       THEN [g |-> [g EXCEPT !.fault = "unwrap on None"], idx |-> Dead]
     ELSE IF trail[Len(trail)] = new_idx THEN [g |-> g, idx |-> head]
     ELSE LET r  == propagate_change(g, p, trail, new_idx)
              g1 == add_ref(r.g, r.idx)
              g2 == decrement_ref(g1, head)
          IN [g |-> g2, idx |-> IF g2.fault = "none" THEN r.idx ELSE Dead]

\* add_leaf pushing the new index at the end of the registry
InsertSorted_Append(s, idx, i) == Append(s, idx)

RECURSIVE InsertSorted(_, _, _)
InsertSorted(s, idx, i) ==
  IF i > Len(s) THEN Append(s, idx)
  ELSE IF idx < s[i] THEN SubSeq(s, 1, i - 1) \o <<idx>> \o SubSeq(s, i, Len(s))
  ELSE InsertSorted(s, idx, i + 1)

\* add_leaf that does not enter the leaf into the table
add_leaf_NoInsert(g) ==
  LET idx  == NextAllocated(g.nodes)
      leaf == NodeNew(idx)
  IN [g |-> [g EXCEPT !.nodes[idx] = leaf,
                      !.leaves = InsertSorted(@, idx, 1)],
      idx |-> idx]

add_leaf(g) ==
  LET idx  == NextAllocated(g.nodes)
      leaf == NodeNew(idx)
  IN [g |-> [g EXCEPT !.nodes[idx] = leaf,
                      !.leaves = InsertSorted(@, idx, 1),
                      !.index_lookup = MapInsert(@, leaf, idx)],
      idx |-> idx]

\* Vec::remove(i)
VecRemove(s, i) == SubSeq(s, 1, i) \o SubSeq(s, i + 2, Len(s))

\* _remove_leaf without the test of the reference count
remove_leaf_NoRefCheck(g, leaf) ==
  LET leaf_list_idx == BinarySearch(g.leaves, leaf, 0, Len(g.leaves))
  IN IF leaf_list_idx = NotFound THEN [g EXCEPT !.fault = "isn't a leaf"]
     ELSE IF ~Live(g.nodes, leaf) THEN [g EXCEPT !.fault = "unwrap on None"]
     ELSE LET leaf_node == g.nodes[leaf]
          IN [g EXCEPT !.nodes[leaf] = None,
                       !.index_lookup = MapRemove(@, leaf_node),
                       !.leaves = VecRemove(@, leaf_list_idx)]

remove_leaf(g, leaf) ==
  LET leaf_list_idx == BinarySearch(g.leaves, leaf, 0, Len(g.leaves))
  IN IF leaf_list_idx = NotFound THEN [g EXCEPT !.fault = "isn't a leaf"]
     ELSE IF leaf >= Len(g.ref_count) THEN [g EXCEPT !.fault = "get_ref out of bounds"]
     ELSE IF get_ref(g, leaf) # 0 THEN [g EXCEPT !.fault = "still needs leaf"]
     ELSE IF ~Live(g.nodes, leaf) THEN [g EXCEPT !.fault = "unwrap on None"]
     ELSE LET leaf_node == g.nodes[leaf]
          IN [g EXCEPT !.nodes[leaf] = None,
                       !.index_lookup = MapRemove(@, leaf_node),
                       !.leaves = VecRemove(@, leaf_list_idx)]

\* get_root that hands the index out without counting the reference
get_root_NoRef(g, idx) == g
get_root(g, idx) == add_ref(g, idx)

\* bfs_nodes taking the next index from the back of the queue
RECURSIVE BfsLoop_PopBack(_, _, _, _)
BfsLoop_PopBack(ns, lv, queue, bfs_indexes) ==
  IF queue = <<>> THEN bfs_indexes
  ELSE LET index == queue[Len(queue)]
           rest  == SubSeq(queue, 1, Len(queue) - 1)
       IN IF BinarySearch(lv, index, 0, Len(lv)) = NotFound
            THEN IF ~Live(ns, index) THEN Append(bfs_indexes, Dead)
                 ELSE BfsLoop_PopBack(ns, lv, rest \o ns[index], Append(bfs_indexes, index))
            ELSE BfsLoop_PopBack(ns, lv, rest, Append(bfs_indexes, index))

\* the while loop of bfs_nodes; an index outside the node vector ends the walk
\* (the panic of nodes[index]), shown as a last element Dead
RECURSIVE BfsLoop(_, _, _, _)
BfsLoop(ns, lv, queue, bfs_indexes) ==
  IF queue = <<>> THEN bfs_indexes
  ELSE LET index == Head(queue)
           rest  == Tail(queue)
       IN IF BinarySearch(lv, index, 0, Len(lv)) = NotFound
            THEN IF ~Live(ns, index) THEN Append(bfs_indexes, Dead)
                 ELSE BfsLoop(ns, lv, rest \o ns[index], Append(bfs_indexes, index))
            ELSE BfsLoop(ns, lv, rest, Append(bfs_indexes, index))

bfs_nodes(ns, head, lv) == BfsLoop(ns, lv, <<head>>, <<>>)

\* ------------------------------------------------------------ the codec
RECURSIVE BitOr(_, _)
BitOr(a, b) ==
  IF a = 0 THEN b
  ELSE IF b = 0 THEN a
  ELSE (IF a % 2 = 1 \/ b % 2 = 1 THEN 1 ELSE 0) + 2 * BitOr(a \div 2, b \div 2)

RECURSIVE Pow2(_)
Pow2(n) == IF n = 0 THEN 1 ELSE 2 * Pow2(n - 1)

Shl(a, n) == a * Pow2(n)

UVec3(x, y, z) == [x |-> x, y |-> y, z |-> z]
MaxElement(c) ==
  IF c.x >= c.y /\ c.x >= c.z THEN c.x ELSE IF c.y >= c.z THEN c.y ELSE c.z

\* Childs::new for Zorder3d: the match on (x, y, z)
ZorderNew(q) == q.x + 2 * q.y + 4 * q.z

\* the match of Childs::new has an arm for each (x, y, z) in {0,1}^3 and
\* ends in unimplemented!()
ZorderNewPanics(q) == q.x > 1 \/ q.y > 1 \/ q.z > 1

\* Childs::to_coord for Zorder3d: (bits & 1, bits & 0b10, bits & 0b100)
to_coord(s) == UVec3(s % 2, 2 * ((s \div 2) % 2), 4 * ((s \div 4) % 2))

RECURSIVE ToCellLoop(_, _, _)
ToCellLoop(p, layer, c) ==
  IF layer >= Len(p) THEN c
  ELSE LET q == to_coord(p[layer + 1])
       IN ToCellLoop(p, layer + 1,
                     UVec3(BitOr(c.x, Shl(q.x, layer)),
                           BitOr(c.y, Shl(q.y, layer)),
                           BitOr(c.z, Shl(q.z, layer))))

to_cell(p) == ToCellLoop(p, 0, UVec3(0, 0, 0))

Reverse(s) == [i \in 1 .. Len(s) |-> s[Len(s) + 1 - i]]

RECURSIVE PathFromLoop(_, _, _)
PathFromLoop(c, n, p) ==
  IF n = 0 THEN p
  ELSE PathFromLoop(UVec3(c.x \div 2, c.y \div 2, c.z \div 2), n - 1,
                    Append(p, ZorderNew(UVec3(c.x % 2, c.y % 2, c.z % 2))))

\* path_from handing the selectors back in the order the loop made them
path_from_NoReverse(c, d) == PathFromLoop(c, d, <<>>)
\* path_from after its range check
path_from(c, d) == Reverse(PathFromLoop(c, d, <<>>))
\* the range check letting a coordinate equal to 2^depth through
PathFromPanics_Strict(c, d) == MaxElement(c) > Pow2(d)
PathFromPanics(c, d) == MaxElement(c) >= Pow2(d)

\* ------------------------------------------------------------- actions
NoCall == [op |-> "none", head |-> Dead, path |-> <<>>, new_idx |-> Dead, ret |-> Dead]

\* no scenario is being run
NoScen == [kind |-> "none"]

Paths == UNION {[1 .. n -> PathChildren] : n \in 0 .. MaxDepth}

Store(g) ==
  /\ nodes' = g.nodes
  /\ ref_count' = g.ref_count
  /\ index_lookup' = g.index_lookup
  /\ leaves' = g.leaves
  /\ fault' = g.fault

Init ==
  /\ nodes = [i \in Slot |-> None]
  /\ ref_count = <<>>
  /\ index_lookup = <<>>
  /\ leaves = <<>>
  /\ roots = [i \in Slot |-> 0]
  /\ fault = "none"
  /\ calls = 0
  /\ last = NoCall
  /\ cell = UVec3(0, 0, 0)
  /\ depth = 0
  /\ path = <<>>
  /\ out = UVec3(0, 0, 0)
  /\ cpc = "idle"
  /\ scen = NoScen

\* A call is run with overflow checks on; when that run ends in an arithmetic
\* overflow panic, the run of a build without the checks is the other outcome.
OverflowFaults == {"add overflow", "subtract overflow"}

AddLeaf ==
  /\ fault = "none"
  /\ Len(leaves) < NumLeaves
  /\ FreeSlots(nodes) # {}
  /\ LET r == add_leaf(Graph(TRUE))
     IN /\ Store(r.g)
        /\ last' = [NoCall EXCEPT !.op = "add_leaf", !.ret = r.idx]
  /\ UNCHANGED <<roots, calls>>
  /\ UNCHANGED cvars
  /\ UNCHANGED scen

GetRootDone(g, idx) ==
  /\ Store(g)
  /\ roots' = IF g.fault = "none" THEN [roots EXCEPT ![idx] = @ + 1] ELSE roots
  /\ last' = [NoCall EXCEPT !.op = "get_root", !.head = idx, !.ret = idx]

GetRoot ==
  /\ fault = "none"
  /\ calls < MaxCalls
  /\ \E idx \in Slot :
       /\ Live(nodes, idx)
       /\ LET g == get_root(Graph(TRUE), idx)
          IN \/ GetRootDone(g, idx)
             \/ g.fault \in OverflowFaults /\ GetRootDone(get_root(Graph(FALSE), idx), idx)
  /\ calls' = calls + 1
  /\ UNCHANGED cvars
  /\ UNCHANGED scen

SetNodeDone(r, head, p, new_idx) ==
  /\ ~r.g.full
  /\ Store(r.g)
  /\ roots' = IF r.g.fault = "none"
                THEN [[roots EXCEPT ![head] = @ - 1] EXCEPT ![r.idx] = @ + 1]
                ELSE roots
  /\ last' = [op |-> "set_node", head |-> head, path |-> p,
              new_idx |-> new_idx, ret |-> r.idx]

\* set_node on a head the caller holds a root reference on; the reference
\* moves from head to the returned index
SetNode ==
  /\ fault = "none"
  /\ calls < MaxCalls
  /\ \E head \in Slot, p \in Paths, new_idx \in Slot :
       /\ roots[head] > 0
       /\ Live(nodes, new_idx)
       /\ LET r == set_node(Graph(TRUE), head, p, new_idx)
          IN \/ SetNodeDone(r, head, p, new_idx)
             \/ /\ r.g.fault \in OverflowFaults
                /\ SetNodeDone(set_node(Graph(FALSE), head, p, new_idx), head, p, new_idx)
  /\ calls' = calls + 1
  /\ UNCHANGED cvars
  /\ UNCHANGED scen

RemoveLeaf ==
  /\ fault = "none"
  /\ \E leaf \in Slot :
       /\ Store(remove_leaf(Graph(TRUE), leaf))
       /\ last' = [NoCall EXCEPT !.op = "remove_leaf", !.head = leaf]
  /\ UNCHANGED <<roots, calls>>
  /\ UNCHANGED cvars
  /\ UNCHANGED scen

Next ==
  \/ AddLeaf
  \/ GetRoot
  \/ SetNode
  \/ RemoveLeaf

Spec == Init /\ [][Next]_vars

\* ---- the codec run on every cell and depth of the bounded range
CodecCoords == 0 .. Pow2(MaxCodecDepth)

CodecInit ==
  /\ nodes = [i \in Slot |-> None]
  /\ ref_count = <<>>
  /\ index_lookup = <<>>
  /\ leaves = <<>>
  /\ roots = [i \in Slot |-> 0]
  /\ fault = "none"
  /\ calls = 0
  /\ last = NoCall
  /\ depth \in 0 .. MaxCodecDepth
  /\ cell \in {UVec3(x, y, z) : x \in CodecCoords, y \in CodecCoords, z \in CodecCoords}
  /\ path = <<>>
  /\ out = UVec3(0, 0, 0)
  /\ cpc = "start"
  /\ scen = NoScen

PathFrom ==
  /\ cpc = "start"
  /\ IF PathFromPanics(cell, depth)
       THEN cpc' = "panic" /\ path' = path
       ELSE cpc' = "path" /\ path' = path_from(cell, depth)
  /\ UNCHANGED <<cell, depth, out>>
  /\ UNCHANGED gvars
  /\ UNCHANGED scen

ToCell ==
  /\ cpc = "path"
  /\ out' = to_cell(path)
  /\ cpc' = "cell"
  /\ UNCHANGED <<cell, depth, path>>
  /\ UNCHANGED gvars
  /\ UNCHANGED scen

\* Zorder3d::new(q).to_coord() for an octant q, the cell of a volume of depth 1
OctantCoord ==
  /\ cpc = "start"
  /\ depth = 1
  /\ MaxElement(cell) <= 1
  /\ path' = <<ZorderNew(cell)>>
  /\ out' = to_coord(ZorderNew(cell))
  /\ cpc' = "coord"
  /\ UNCHANGED <<cell, depth>>
  /\ UNCHANGED gvars
  /\ UNCHANGED scen

\* Zorder3d::new(s.to_coord()) for the selector s made above
OctantNew ==
  /\ cpc = "coord"
  /\ IF ZorderNewPanics(out)
       THEN cpc' = "unimplemented" /\ path' = path
       ELSE cpc' = "selector" /\ path' = <<ZorderNew(out)>>
  /\ UNCHANGED <<cell, depth, out>>
  /\ UNCHANGED gvars
  /\ UNCHANGED scen

CodecNext ==
  \/ PathFrom
  \/ ToCell
  \/ OctantCoord
  \/ OctantNew

SpecCodec == CodecInit /\ [][CodecNext]_vars

\* ---- the region fill of VoxelObject::floor, run over an aligned sub-cube:
\* ---- every cell is written with one leaf, then written back with the other
ScenSlots == NumLeaves + (3 * MaxDepth)   \* arena slots a scenario can need
ScenSlot  == 0 .. (ScenSlots - 1)

CubeSize(k) == Pow2(3 * k)
\* cell number m of the sub-cube of side 2^k at org (x fastest, then y, then z)
CubeCell(org, k, m) ==
  LET s == Pow2(k)
  IN UVec3(org.x + (m % s), org.y + ((m \div s) % s), org.z + (m \div (s * s)))
\* the corners of the aligned sub-cubes of side 2^k of a volume of height h
Origins(h, k) ==
  LET os == {Pow2(k) * i : i \in 0 .. (Pow2(h - k) - 1)}
  IN {UVec3(x, y, z) : x \in os, y \in os, z \in os}

CollapseInit ==
  /\ nodes = [i \in ScenSlot |-> None]
  /\ ref_count = <<>>
  /\ index_lookup = <<>>
  /\ leaves = <<>>
  /\ roots = [i \in ScenSlot |-> 0]
  /\ fault = "none"
  /\ calls = 0
  /\ last = NoCall
  /\ cell = UVec3(0, 0, 0)
  /\ depth = 0
  /\ path = <<>>
  /\ out = UVec3(0, 0, 0)
  /\ cpc = "idle"
  /\ \E h \in 1 .. MaxDepth : \E k \in 0 .. h : \E org \in Origins(h, k) :
     \E dir \in {"up", "down"} :
       scen = [kind |-> "collapse", h |-> h, k |-> k, org |-> org, dir |-> dir,
               a |-> Dead, b |-> Dead, phase |-> "setup", n |-> 0,
               head |-> Dead, head0 |-> Dead, before |-> 0]

\* let mut head = sdg.get_root(a), on a graph holding the registered leaves
CollapseGetRoot ==
  /\ fault = "none"
  /\ scen.kind = "collapse"
  /\ scen.phase = "setup"
  /\ Len(leaves) = NumLeaves
  /\ \E i \in 1 .. Len(leaves), j \in 1 .. Len(leaves) :
       /\ i # j
       /\ LET a == leaves[i]
              g == get_root(Graph(TRUE), a)
          IN /\ Store(g)
             /\ roots' = [roots EXCEPT ![a] = @ + 1]
             /\ last' = [NoCall EXCEPT !.op = "get_root", !.head = a, !.ret = a]
             /\ scen' = [scen EXCEPT !.a = a, !.b = leaves[j], !.phase = "fill",
                                     !.head = a, !.head0 = a,
                                     !.before = Cardinality({s \in DOMAIN nodes : nodes[s] # None})]
  /\ UNCHANGED calls
  /\ UNCHANGED cvars

\* head = sdg.set_node(head, &path_from(cell, height), v) for the next cell
WriteCell(v, during, after) ==
  LET m == IF scen.dir = "up" THEN scen.n ELSE CubeSize(scen.k) - 1 - scen.n
      c == CubeCell(scen.org, scen.k, m)
      p == path_from(c, scen.h)
      r == set_node(Graph(TRUE), scen.head, p, v)
      finished == scen.n + 1 = CubeSize(scen.k)
  IN /\ ~PathFromPanics(c, scen.h)
     /\ ~r.g.full
     /\ Store(r.g)
     /\ roots' = IF r.g.fault = "none"
                   THEN [[roots EXCEPT ![scen.head] = @ - 1] EXCEPT ![r.idx] = @ + 1]
                   ELSE roots
     /\ last' = [op |-> "set_node", head |-> scen.head, path |-> p,
                 new_idx |-> v, ret |-> r.idx]
     /\ scen' = [scen EXCEPT !.head = r.idx,
                             !.n = IF finished THEN 0 ELSE scen.n + 1,
                             !.phase = IF finished THEN after ELSE during]

CollapseFill ==
  /\ fault = "none"
  /\ scen.kind = "collapse"
  /\ scen.phase = "fill"
  /\ WriteCell(scen.b, "fill", "filled")
  /\ UNCHANGED calls
  /\ UNCHANGED cvars

CollapseRestore ==
  /\ fault = "none"
  /\ scen.kind = "collapse"
  /\ scen.phase \in {"filled", "restore"}
  /\ WriteCell(scen.a, "restore", "done")
  /\ UNCHANGED calls
  /\ UNCHANGED cvars

CollapseNext ==
  \/ AddLeaf
  \/ CollapseGetRoot
  \/ CollapseFill
  \/ CollapseRestore

SpecCollapse == CollapseInit /\ [][CollapseNext]_vars

\* ---- two root handles on one leaf, each threaded through the same two
\* ---- edits, the second handle taking them in the opposite order
Edits(h) == [path : [1 .. h -> PathChildren], v : 1 .. NumLeaves]

OrderInit ==
  /\ nodes = [i \in ScenSlot |-> None]
  /\ ref_count = <<>>
  /\ index_lookup = <<>>
  /\ leaves = <<>>
  /\ roots = [i \in ScenSlot |-> 0]
  /\ fault = "none"
  /\ calls = 0
  /\ last = NoCall
  /\ cell = UVec3(0, 0, 0)
  /\ depth = 0
  /\ path = <<>>
  /\ out = UVec3(0, 0, 0)
  /\ cpc = "idle"
  /\ \E h \in 1 .. MaxDepth : \E e1 \in Edits(h), e2 \in Edits(h) : \E a \in 1 .. NumLeaves :
       scen = [kind |-> "order", h |-> h, e |-> <<e1, e2>>, a |-> a,
               heads |-> <<Dead, Dead>>, done |-> <<0, 0>>]

\* let mut head = sdg.get_root(a), for handle i
OrderGetRoot ==
  /\ fault = "none"
  /\ scen.kind = "order"
  /\ Len(leaves) = NumLeaves
  /\ \E i \in 1 .. 2 :
       /\ scen.heads[i] = Dead
       /\ LET a == leaves[scen.a]
              g == get_root(Graph(TRUE), a)
          IN /\ Store(g)
             /\ roots' = [roots EXCEPT ![a] = @ + 1]
             /\ last' = [NoCall EXCEPT !.op = "get_root", !.head = a, !.ret = a]
             /\ scen' = [scen EXCEPT !.heads[i] = a]
  /\ UNCHANGED calls
  /\ UNCHANGED cvars

\* head = sdg.set_node(head, &path, v), the next edit of handle i
OrderEdit ==
  /\ fault = "none"
  /\ scen.kind = "order"
  /\ \E i \in 1 .. 2 :
       /\ scen.heads[i] # Dead
       /\ scen.done[i] < 2
       /\ LET e == scen.e[IF i = 1 THEN scen.done[i] + 1 ELSE 2 - scen.done[i]]
              v == leaves[e.v]
              r == set_node(Graph(TRUE), scen.heads[i], e.path, v)
          IN /\ ~r.g.full
             /\ Store(r.g)
             /\ roots' = IF r.g.fault = "none"
                           THEN [[roots EXCEPT ![scen.heads[i]] = @ - 1] EXCEPT ![r.idx] = @ + 1]
                           ELSE roots
             /\ last' = [op |-> "set_node", head |-> scen.heads[i], path |-> e.path,
                         new_idx |-> v, ret |-> r.idx]
             /\ scen' = [scen EXCEPT !.heads[i] = r.idx, !.done[i] = @ + 1]
  /\ UNCHANGED calls
  /\ UNCHANGED cvars

OrderNext ==
  \/ AddLeaf
  \/ OrderGetRoot
  \/ OrderEdit

SpecOrder == OrderInit /\ [][OrderNext]_vars

\* ---- callers that keep no discipline: set_node and descend on any index,
\* ---- held or not, live or not, with a path of any length; the caller's
\* ---- volume has the logical height scen.height (DagRef.height)
AnyInit ==
  /\ nodes = [i \in Slot |-> None]
  /\ ref_count = <<>>
  /\ index_lookup = <<>>
  /\ leaves = <<>>
  /\ roots = [i \in Slot |-> 0]
  /\ fault = "none"
  /\ calls = 0
  /\ last = NoCall
  /\ cell = UVec3(0, 0, 0)
  /\ depth = 0
  /\ path = <<>>
  /\ out = UVec3(0, 0, 0)
  /\ cpc = "idle"
  /\ \E h \in 1 .. MaxDepth : scen = [kind |-> "any", height |-> h, any |-> 0]

AnySetNodeDone(r, head, p, new_idx) ==
  /\ ~r.g.full
  /\ Store(r.g)
  /\ roots' = IF r.g.fault # "none" \/ descend(nodes, head, p) = new_idx
                THEN roots    \* panicked, or returned head by the short-circuit
                ELSE [[roots EXCEPT ![head] = IF @ > 0 THEN @ - 1 ELSE 0]
                         EXCEPT ![r.idx] = @ + 1]
  /\ last' = [op |-> "set_node", head |-> head, path |-> p,
              new_idx |-> new_idx, ret |-> r.idx]

AnySetNode ==
  /\ fault = "none"
  /\ calls < MaxCalls
  /\ scen.any < MaxAny
  /\ \E head \in Slot, p \in Paths, new_idx \in Slot :
       LET r == set_node(Graph(TRUE), head, p, new_idx)
       IN \/ AnySetNodeDone(r, head, p, new_idx)
          \/ /\ r.g.fault \in OverflowFaults
             /\ AnySetNodeDone(set_node(Graph(FALSE), head, p, new_idx), head, p, new_idx)
  /\ calls' = calls + 1
  /\ UNCHANGED cvars
  /\ scen' = [scen EXCEPT !.any = @ + 1]

AnyDescend ==
  /\ fault = "none"
  /\ calls < MaxCalls
  /\ scen.any < MaxAny
  /\ \E head \in Slot, p \in Paths :
       LET ret == descend(nodes, head, p)
       IN /\ fault' = IF ret = Dead THEN "unwrap on None" ELSE "none"
          /\ last' = [op |-> "descend", head |-> head, path |-> p,
                      new_idx |-> Dead, ret |-> ret]
  /\ calls' = calls + 1
  /\ UNCHANGED <<nodes, ref_count, index_lookup, leaves, roots>>
  /\ UNCHANGED cvars
  /\ scen' = [scen EXCEPT !.any = @ + 1]

AnyNext ==
  \/ AddLeaf
  \/ GetRoot
  \/ AnySetNode
  \/ AnyDescend

SpecAny == AnyInit /\ [][AnyNext]_vars

\* ---- short runs that mix the writing calls with the reading ones: descend,
\* ---- bfs_nodes and the export of the arena
MixGetRoot ==
  /\ fault = "none"
  /\ calls < MaxMix
  /\ \E idx \in Slot :
       /\ Live(nodes, idx)
       /\ LET g == get_root(Graph(TRUE), idx)
          IN \/ GetRootDone(g, idx)
             \/ g.fault \in OverflowFaults /\ GetRootDone(get_root(Graph(FALSE), idx), idx)
  /\ calls' = calls + 1
  /\ UNCHANGED cvars
  /\ UNCHANGED scen

MixSetNode ==
  /\ fault = "none"
  /\ calls < MaxMix
  /\ \E head \in Slot, p \in Paths, new_idx \in Slot :
       /\ roots[head] > 0
       /\ Live(nodes, new_idx)
       /\ LET r == set_node(Graph(TRUE), head, p, new_idx)
          IN \/ SetNodeDone(r, head, p, new_idx)
             \/ /\ r.g.fault \in OverflowFaults
                /\ SetNodeDone(set_node(Graph(FALSE), head, p, new_idx), head, p, new_idx)
  /\ calls' = calls + 1
  /\ UNCHANGED cvars
  /\ UNCHANGED scen

\* descend(head, path) on a live index
MixDescend ==
  /\ fault = "none"
  /\ calls < MaxMix
  /\ \E head \in Slot, p \in Paths :
       /\ Live(nodes, head)
       /\ LET ret == descend(nodes, head, p)
          IN /\ fault' = IF ret = Dead THEN "unwrap on None" ELSE "none"
             /\ last' = [op |-> "descend", head |-> head, path |-> p,
                         new_idx |-> Dead, ret |-> ret]
  /\ calls' = calls + 1
  /\ UNCHANGED <<nodes, ref_count, index_lookup, leaves, roots>>
  /\ UNCHANGED cvars
  /\ UNCHANGED scen

\* bfs_nodes(nodes, head, leaves) on a live index
MixBfs ==
  /\ fault = "none"
  /\ calls < MaxMix
  /\ \E head \in Slot :
       /\ Live(nodes, head)
       /\ LET ret == bfs_nodes(nodes, head, leaves)
          IN /\ fault' = IF ret # <<>> /\ ret[Len(ret)] = Dead
                           THEN "index out of bounds" ELSE "none"
             /\ last' = [op |-> "bfs_nodes", head |-> head, path |-> <<>>,
                         new_idx |-> Dead, ret |-> ret]
  /\ calls' = calls + 1
  /\ UNCHANGED <<nodes, ref_count, index_lookup, leaves, roots>>
  /\ UNCHANGED cvars
  /\ UNCHANGED scen

\* what the memory of a slot that holds no node may read as: update_voxels
\* uploads it as it is
RawFree == {NodeNew(U32Max), NodeNew(0)}

\* update_voxels: the raw memory of the arena, up to the last slot in use
MixExport ==
  /\ fault = "none"
  /\ calls < MaxMix
  /\ \E i \in DOMAIN nodes : Live(nodes, i)
  /\ LET used == {i \in DOMAIN nodes : Live(nodes, i)}
         top  == CHOOSE i \in used : \A j \in used : j <= i
     IN \E raw \in [(0 .. top) \ used -> RawFree] :
          last' = [op |-> "export", head |-> Dead, path |-> <<>>, new_idx |-> Dead,
                   ret |-> [i \in 0 .. top |-> IF i \in used THEN nodes[i] ELSE raw[i]]]
  /\ calls' = calls + 1
  /\ UNCHANGED <<nodes, ref_count, index_lookup, leaves, roots, fault>>
  /\ UNCHANGED cvars
  /\ UNCHANGED scen

MixNext ==
  \/ AddLeaf
  \/ RemoveLeaf
  \/ MixGetRoot
  \/ MixSetNode
  \/ MixDescend
  \/ MixBfs
  \/ MixExport

SpecMix == Init /\ [][MixNext]_vars

\* ---- set_node with its decrement cascade taken one turn of the loop at a
\* ---- time, on graphs built by add_leaf, get_root and set_node
CascadeInit ==
  /\ nodes = [i \in Slot |-> None]
  /\ ref_count = <<>>
  /\ index_lookup = <<>>
  /\ leaves = <<>>
  /\ roots = [i \in Slot |-> 0]
  /\ fault = "none"
  /\ calls = 0
  /\ last = NoCall
  /\ cell = UVec3(0, 0, 0)
  /\ depth = 0
  /\ path = <<>>
  /\ out = UVec3(0, 0, 0)
  /\ cpc = "start"
  /\ scen = [kind |-> "cascade", phase |-> "build", queue |-> <<>>, freed |-> <<>>,
             new_head |-> Dead]

CascadeAddLeaf == scen.phase = "build" /\ AddLeaf
CascadeGetRoot == scen.phase = "build" /\ MixGetRoot
CascadeSetNode == scen.phase = "build" /\ MixSetNode

\* set_node up to and including add_ref(new_head); decrement_ref(head) has
\* put head on its work-stack
CascadeStart ==
  /\ fault = "none"
  /\ scen.phase = "build"
  /\ calls < MaxMix
  /\ \E head \in Slot, p \in Paths, new_idx \in Slot :
       /\ roots[head] > 0
       /\ Live(nodes, new_idx)
       /\ LET trail == get_trail(nodes, head, p)
              r     == propagate_change(Graph(TRUE), p, trail, new_idx)
              g2    == add_ref(r.g, r.idx)
          IN /\ trail[Len(trail)] # new_idx
             /\ g2.fault = "none"
             /\ ~g2.full
             /\ Store(g2)
             /\ roots' = [[roots EXCEPT ![head] = @ - 1] EXCEPT ![r.idx] = @ + 1]
             /\ last' = [op |-> "set_node", head |-> head, path |-> p,
                         new_idx |-> new_idx, ret |-> r.idx]
             /\ scen' = [scen EXCEPT !.phase = "run", !.queue = <<head>>,
                                     !.new_head = r.idx]
  /\ calls' = calls + 1
  /\ UNCHANGED cvars

\* one turn of the loop; the cascade is over when the work-stack is empty
CascadeStep ==
  /\ fault = "none"
  /\ scen.phase = "run"
  /\ LET r == DecrementStep(Graph(TRUE), scen.queue)
     IN /\ Store(r.g)
        /\ scen' = [scen EXCEPT
                      !.phase = IF r.queue = <<>> /\ r.g.fault = "none" THEN "done" ELSE "run",
                      !.queue = r.queue,
                      !.freed = @ \o r.freed]
  /\ UNCHANGED <<roots, calls, last>>
  /\ UNCHANGED cvars

CascadeNext ==
  \/ CascadeAddLeaf
  \/ CascadeGetRoot
  \/ CascadeSetNode
  \/ CascadeStart
  \/ CascadeStep

\* the loop of decrement_ref runs on once it has started
SpecCascade == CascadeInit /\ [][CascadeNext]_vars /\ WF_vars(CascadeStep)


\* ---- the older engine (src/src/graph/sdg.rs): leaves are the indices below
\* ---- leaf_count, the arena is a NodeField that keeps a reference status per
\* ---- slot, and set_node may overwrite a node in place
LegacyGraph ==
  [nodes |-> nodes, refs |-> ref_count, index_lookup |-> index_lookup,
   leaf_count |-> Len(leaves), fault |-> "none", full |-> FALSE]

legacy_is_leaf(g, index) == index < g.leaf_count

\* the walk that goes on through a leaf
RECURSIVE LegacyTrailLoop_NoStop(_, _, _, _)
LegacyTrailLoop_NoStop(ns, trail, p, step) ==
  IF step > Len(p) THEN trail
  ELSE LegacyTrailLoop_NoStop(ns, Append(trail, child(ns, trail[step], p[step])), p, step + 1)

\* the loop of get_trail: push the child unless it is the parent itself; a
\* parent that is no live slot is the fatal error, shown as a last element Dead
RECURSIVE LegacyTrailLoop(_, _, _, _)
LegacyTrailLoop(ns, trail, p, step) ==
  IF step > Len(p) THEN trail
  ELSE LET parent == trail[step]
           c      == child(ns, parent, p[step])
       IN IF c = Dead THEN Append(trail, Dead)
          ELSE IF c # parent THEN LegacyTrailLoop(ns, Append(trail, c), p, step + 1)
          ELSE trail

legacy_get_trail(ns, start, p) == LegacyTrailLoop(ns, <<start>>, p, 1)

\* descend of a Pointer (idx, height): the index of the Pointer it returns
legacy_descend(ns, start, height, p) ==
  IF height < Len(p) THEN Dead
  ELSE LET t == legacy_get_trail(ns, start, p) IN t[Len(t)]

\* bfs_nodes with the leaves given as the indices up to last_leaf
RECURSIVE LegacyBfsLoop(_, _, _, _)
LegacyBfsLoop(ns, last_leaf, queue, bfs_indexes) ==
  IF queue = <<>> THEN bfs_indexes
  ELSE LET index == Head(queue)
           rest  == Tail(queue)
       IN IF index > last_leaf
            THEN IF ~Live(ns, index) THEN Append(bfs_indexes, Dead)
                 ELSE LegacyBfsLoop(ns, last_leaf, rest \o ns[index], Append(bfs_indexes, index))
            ELSE LegacyBfsLoop(ns, last_leaf, rest, Append(bfs_indexes, index))

legacy_bfs_nodes(ns, start, last_leaf) == LegacyBfsLoop(ns, last_leaf, <<start>>, <<>>)

\* the indices the queue of bfs_nodes comes to hold, starting from those in S
RECURSIVE LegacyBelow(_, _, _)
LegacyBelow(ns, last_leaf, S) ==
  LET T == S \cup {ns[i][c] : i \in {j \in S : j > last_leaf /\ Live(ns, j)}, c \in 1 .. COUNT}
  IN IF T = S THEN S ELSE LegacyBelow(ns, last_leaf, T)
\* the while loop of bfs_nodes never empties its queue: an index it expands
\* is among the indices below itself
LegacyBfsDiverges(ns, start, last_leaf) ==
  \E b \in LegacyBelow(ns, last_leaf, {start}) :
    /\ b > last_leaf
    /\ Live(ns, b)
    /\ b \in LegacyBelow(ns, last_leaf, {ns[b][c] : c \in 1 .. COUNT})

\* NodeField (crate vec_mem_heap): push takes the first free slot and gives
\* it status 1; add_ref and remove_ref move the status by one; remove_ref
\* that reaches zero frees the slot and hands back its node; status and both
\* fail on a slot that holds no node
nf_push(g, node) ==
  IF g.fault # "none" \/ g.full THEN [g |-> g, idx |-> Dead]
  ELSE IF FreeSlots(g.nodes) = {} THEN [g |-> [g EXCEPT !.full = TRUE], idx |-> Dead]
  ELSE LET idx == NextAllocated(g.nodes)
       IN [g |-> [g EXCEPT !.nodes[idx] = node, !.refs[idx + 1] = 1], idx |-> idx]

nf_add_ref(g, idx) ==
  IF g.fault # "none" \/ g.full THEN g
  ELSE IF ~Live(g.nodes, idx) THEN [g EXCEPT !.fault = "unwrap on Err"]
  ELSE [g EXCEPT !.refs[idx + 1] = @ + 1]

nf_remove_ref(g, idx) ==
  IF g.fault # "none" \/ g.full THEN [g |-> g, data |-> None]
  ELSE IF ~Live(g.nodes, idx) THEN [g |-> [g EXCEPT !.fault = "unwrap on Err"], data |-> None]
  ELSE IF g.refs[idx + 1] = 1
    THEN [g |-> [g EXCEPT !.refs[idx + 1] = 0, !.nodes[idx] = None], data |-> g.nodes[idx]]
    ELSE [g |-> [g EXCEPT !.refs[idx + 1] = @ - 1], data |-> None]

nf_status(g, idx) == g.refs[idx + 1]

legacy_add_node(g, node) ==
  LET r == nf_push(g, node)
  IN IF r.idx = Dead THEN r
     ELSE [g |-> [r.g EXCEPT !.index_lookup = MapInsert(@, node, r.idx)], idx |-> r.idx]

\* the loop of propagate_change: from the deepest level up, the old parent of
\* the level gets the child set; a candidate the table knows is taken, one it
\* does not know is allocated, unless the old parent is no leaf and has status
\* 2: then the loop ends and hands the candidate back for the in-place write
RECURSIVE LegacyPropagateLoop(_, _, _, _, _, _)
LegacyPropagateLoop(g, p, trail, cur_depth, cur_idx, old_parent) ==
  IF cur_depth < 0 \/ g.fault # "none" \/ g.full
    THEN [g |-> g, old_parent |-> old_parent, idx |-> cur_idx, early |-> None]
  ELSE LET op == IF cur_depth < Len(trail) THEN trail[cur_depth + 1] ELSE trail[Len(trail)]
       IN IF ~Live(g.nodes, op)
            THEN [g |-> [g EXCEPT !.fault = "AccessError"], old_parent |-> op,
                  idx |-> Dead, early |-> None]
          ELSE LET new_parent_node == WithChild(g.nodes[op], p[cur_depth + 1], cur_idx)
                   found == find_index(g, new_parent_node)
               IN IF found # NotFound
                    THEN LegacyPropagateLoop(g, p, trail, cur_depth - 1, found, op)
                  ELSE IF nf_status(g, op) = 2 /\ ~legacy_is_leaf(g, op)
                    THEN [g |-> g, old_parent |-> op, idx |-> op, early |-> new_parent_node]
                  ELSE LET r == legacy_add_node(g, new_parent_node)
                       IN LegacyPropagateLoop(r.g, p, trail, cur_depth - 1, r.idx, op)

legacy_propagate_change(g, p, trail, new_pointer, start) ==
  LegacyPropagateLoop(g, p, trail, Len(p) - 1, new_pointer, start)

RECURSIVE AddRefAll(_, _, _)
AddRefAll(g, indices, i) ==
  IF i > Len(indices) THEN g ELSE AddRefAll(nf_add_ref(g, indices[i]), indices, i + 1)

\* mass_remove: one remove_ref per listed index; a slot that is no leaf and
\* is left with status 1 is released by a second remove_ref and its content
\* taken out of the table
RECURSIVE MassRemoveLoop(_, _, _)
MassRemoveLoop(g, indices, i) ==
  IF i > Len(indices) \/ g.fault # "none" \/ g.full THEN g
  ELSE LET index == indices[i]
           r1    == nf_remove_ref(g, index)
       IN IF r1.g.fault # "none" THEN r1.g
          ELSE IF ~Live(r1.g.nodes, index) THEN [r1.g EXCEPT !.fault = "unwrap on Err"]
          ELSE IF nf_status(r1.g, index) = 1 /\ ~legacy_is_leaf(r1.g, index)
            THEN LET r2 == nf_remove_ref(r1.g, index)
                 IN MassRemoveLoop([r2.g EXCEPT !.index_lookup = MapRemove(@, r2.data)],
                                   indices, i + 1)
          ELSE MassRemoveLoop(r1.g, indices, i + 1)

mass_remove(g, indices) == MassRemoveLoop(g, indices, 1)

\* set_node(start, path, new_pointer) of the older engine; idx is the index
\* of the Pointer it returns, early the slot it overwrote or Dead
legacy_set_node(g, start, height, p, new_pointer) ==
  IF height < Len(p)
    THEN [g |-> [g EXCEPT !.fault = "Path is longer than start allows."],
          idx |-> Dead, early |-> Dead]
  ELSE LET trail == legacy_get_trail(g.nodes, start, p)
       IN IF trail[Len(trail)] = Dead
            THEN [g |-> [g EXCEPT !.fault = "Trail encountered a fatal error"],
                  idx |-> Dead, early |-> Dead]
          ELSE IF trail[Len(trail)] = new_pointer THEN [g |-> g, idx |-> start, early |-> Dead]
          ELSE LET r == legacy_propagate_change(g, p, trail, new_pointer, start)
                   last_leaf == g.leaf_count - 1
                   old_nodes == legacy_bfs_nodes(r.g.nodes, r.old_parent, last_leaf)
                   g1 == IF r.early = None THEN r.g
                         ELSE [r.g EXCEPT
                                 !.index_lookup =
                                    MapInsert(MapRemove(@, r.g.nodes[r.old_parent]),
                                              r.early, r.old_parent),
                                 !.nodes[r.old_parent] = r.early]
                   new_nodes == legacy_bfs_nodes(g1.nodes, r.idx, last_leaf)
                   g2 == AddRefAll(g1, new_nodes, 1)
                   g3 == mass_remove(g2, old_nodes)
               IN IF r.g.fault # "none" \/ r.g.full THEN [g |-> r.g, idx |-> Dead, early |-> Dead]
                  ELSE IF LegacyBfsDiverges(g1.nodes, r.idx, last_leaf)
                    THEN [g |-> [g1 EXCEPT !.fault = "bfs_nodes does not return"],
                          idx |-> Dead,
                          early |-> IF r.early # None THEN r.old_parent ELSE Dead]
                  ELSE [g |-> g3,
                        idx |-> IF g3.fault # "none" THEN Dead
                                ELSE IF r.early # None THEN start ELSE r.idx,
                        early |-> IF r.early # None THEN r.old_parent ELSE Dead]

legacy_get_root(g, leaf) == nf_add_ref(g, leaf)

LegacyStore(g) ==
  /\ nodes' = g.nodes
  /\ ref_count' = g.refs
  /\ index_lookup' = g.index_lookup
  /\ fault' = g.fault
  /\ leaves' = leaves

\* SparseDirectedGraph::new(leaf_count): the leaves are pushed first; every
\* Pointer of a run has the same height
LegacyInit ==
  /\ nodes = [i \in ScenSlot |-> IF i < NumLeaves THEN NodeNew(i) ELSE None]
  /\ ref_count = [i \in 1 .. ScenSlots |-> IF i <= NumLeaves THEN 1 ELSE 0]
  /\ index_lookup = [n \in {NodeNew(i) : i \in 0 .. (NumLeaves - 1)} |-> n[1]]
  /\ leaves = [i \in 1 .. NumLeaves |-> i - 1]
  /\ roots = [i \in ScenSlot |-> 0]
  /\ fault = "none"
  /\ calls = 0
  /\ last = NoCall
  /\ cell = UVec3(0, 0, 0)
  /\ depth = 0
  /\ path = <<>>
  /\ out = UVec3(0, 0, 0)
  /\ cpc = "idle"
  /\ \E h \in 1 .. MaxDepth : scen = [kind |-> "legacy", height |-> h, early |-> Dead]

\* get_root(leaf, height)
LegacyGetRoot ==
  /\ fault = "none"
  /\ calls < MaxMix
  /\ \E leaf \in 0 .. (NumLeaves - 1) :
       /\ LegacyStore(legacy_get_root(LegacyGraph, leaf))
       /\ roots' = [roots EXCEPT ![leaf] = @ + 1]
       /\ last' = [NoCall EXCEPT !.op = "get_root", !.head = leaf, !.ret = leaf]
  /\ calls' = calls + 1
  /\ scen' = [scen EXCEPT !.early = Dead]
  /\ UNCHANGED cvars

\* root = sdg.set_node(root, &path, leaf) on a Pointer the caller holds
LegacySetNode ==
  /\ fault = "none"
  /\ calls < MaxMix
  /\ \E start \in ScenSlot, p \in Paths, new_pointer \in 0 .. (NumLeaves - 1) :
       /\ roots[start] > 0
       /\ LET r == legacy_set_node(LegacyGraph, start, scen.height, p, new_pointer)
          IN /\ ~r.g.full
             /\ LegacyStore(r.g)
             /\ roots' = IF r.g.fault = "none"
                           THEN [[roots EXCEPT ![start] = @ - 1] EXCEPT ![r.idx] = @ + 1]
                           ELSE roots
             /\ last' = [op |-> "set_node", head |-> start, path |-> p,
                         new_idx |-> new_pointer, ret |-> r.idx]
             /\ scen' = [scen EXCEPT !.early = r.early]
  /\ calls' = calls + 1
  /\ UNCHANGED cvars

LegacyNext ==
  \/ LegacyGetRoot
  \/ LegacySetNode

SpecLegacy == LegacyInit /\ [][LegacyNext]_vars


\* ---------------------------------------------------------- properties
TypeOK ==
  /\ \A i \in DOMAIN nodes :
       nodes[i] = None \/ (Len(nodes[i]) = COUNT /\ \A c \in 1 .. COUNT : nodes[i][c] \in DOMAIN nodes)
  /\ \A i \in 1 .. Len(ref_count) : ref_count[i] \in Int

\* ------------------------------------------------- notions the claims use
IsLeaf(idx) == \E i \in 1 .. Len(leaves) : leaves[i] = idx
LiveSlots == {i \in DOMAIN nodes : nodes[i] # None}
Branches == {i \in LiveSlots : ~IsLeaf(i)}
\* the count of an index; an index past the end of ref_count has none yet
Rc(idx) == IF idx < Len(ref_count) THEN ref_count[idx + 1] ELSE 0
\* child slots of live nodes holding idx
ChildRefs(idx) == {jc \in LiveSlots \X (1 .. COUNT) : nodes[jc[1]][jc[2]] = idx}
\* the same, a node's references to itself left out
ParentRefs(idx) == {jc \in ChildRefs(idx) : jc[1] # idx}

RECURSIVE ReachFrom(_)
ReachFrom(S) ==
  LET T == S \cup {nodes[i][c] : i \in {j \in S : Live(nodes, j)}, c \in 1 .. COUNT}
  IN IF T = S THEN S ELSE ReachFrom(T)
Reachable == ReachFrom({i \in DOMAIN roots : roots[i] > 0})

PathsOfLen(n) == [1 .. n -> Children]
SetNodeStep == calls' = calls + 1 /\ last'.op = "set_node" /\ fault' = "none"

\* C1: no two live arena slots hold nodes with identical content.
C1_Canonical ==
  \A i \in LiveSlots : \A j \in LiveSlots : i # j => nodes[i] # nodes[j]
\* a second edit resolved to a branch that already existed: two root
\* references on one branch slot
C1_Witness ==
  /\ last.op = "set_node"
  /\ \E i \in Branches : roots[i] >= 2 /\ last.ret = i

\* C2 as stated: the count of every live slot is the number of child slots of
\* live nodes holding it plus the root references held on it.
C2_Original ==
  \A i \in LiveSlots : Rc(i) = Cardinality(ChildRefs(i)) + roots[i]
\* C2 amended: the count of every live slot is the number of child slots of
\* other live nodes holding it plus the root references held on it (a leaf's
\* eight references to itself are not counted).
C2_RefCountAccounting ==
  \A i \in LiveSlots : Rc(i) = Cardinality(ParentRefs(i)) + roots[i]
C2_Witness ==
  /\ last.op = "set_node"
  /\ last.ret # last.head
  /\ \E i \in LiveSlots : roots[i] > 0 /\ ParentRefs(i) # {} /\ Rc(i) >= 2
  /\ \E i \in Branches : roots[i] = 1 /\ last.ret = i

\* a node all of whose children are itself: every path below it reads it
SelfLoop(ns, a) == Live(ns, a) /\ ns[a] = NodeNew(a)

\* every path of length m reads the same below a in ns1 as below b in ns0
RECURSIVE SameReads(_, _, _, _, _)
SameReads(ns1, a, ns0, b, m) ==
  IF m = 0 THEN a = b
  ELSE IF SelfLoop(ns1, a) /\ SelfLoop(ns0, b) THEN a = b
  ELSE \A c \in Children : SameReads(ns1, child(ns1, a, c), ns0, child(ns0, b, c), m - 1)

\* every path q # p of the length of p reads the same below a in ns1 as below
\* b in ns0; k is the number of selectors q and p have had in common so far
RECURSIVE SameReadsOffPath(_, _, _, _, _, _)
SameReadsOffPath(ns1, a, ns0, b, p, k) ==
  IF k = Len(p) THEN TRUE
  ELSE \A c \in Children :
         IF c = p[k + 1]
           THEN SameReadsOffPath(ns1, child(ns1, a, c), ns0, child(ns0, b, c), p, k + 1)
           ELSE SameReads(ns1, child(ns1, a, c), ns0, child(ns0, b, c), Len(p) - k - 1)

\* C3: set_node puts new_idx at path and leaves every other path of the same
\* length reading what it read from the old head.
C3_PointEdit ==
  [][SetNodeStep =>
       /\ descend(nodes', last'.ret, last'.path) = last'.new_idx
       /\ SameReadsOffPath(nodes', last'.ret, nodes, last'.head, last'.path, 0)]_vars
\* an edit two levels below a leaf head: the walk reached the leaf early
C3_Witness ==
  /\ last.op = "set_node"
  /\ fault = "none"
  /\ Len(last.path) = 2
  /\ IsLeaf(last.head)
  /\ last.ret # last.head
  /\ descend(nodes, last.ret, last.path) = last.new_idx

\* C4: set_node of the value already at path returns head and changes nothing.
C4_NoOp ==
  [][(SetNodeStep /\ descend(nodes, last'.head, last'.path) = last'.new_idx) =>
       /\ last'.ret = last'.head
       /\ nodes' = nodes
       /\ ref_count' = ref_count
       /\ index_lookup' = index_lookup
       /\ leaves' = leaves]_vars
C4_Witness ==
  /\ last.op = "set_node"
  /\ Len(last.path) >= 1
  /\ last.head # last.new_idx
  /\ last.ret = last.head
  /\ descend(nodes, last.head, last.path) = last.new_idx

\* C5: to_cell(path_from(c, d)) = c for every cell c with all axes < 2^d.
C5_RoundTrip == cpc = "cell" => out = cell

\* C6: decrement_ref never subtracts one from a count that is zero.
C6_NoUnderflow ==
  /\ fault # "subtract overflow"
  /\ \A i \in 1 .. Len(ref_count) : ref_count[i] >= 0
\* the cascade brought the old head's count to exactly zero
C6_Witness ==
  /\ last.op = "set_node"
  /\ fault = "none"
  /\ last.ret # last.head
  /\ Rc(last.head) = 0

\* C7: the table maps the content of every live non-leaf slot back to it.
C7_LookupInvariant ==
  \A i \in Branches :
    nodes[i] \in DOMAIN index_lookup /\ index_lookup[nodes[i]] = i
\* a branch the table maps back to its slot, after the cascade freed the old head
C7_Witness ==
  /\ last.op = "set_node"
  /\ nodes[last.head] = None
  /\ last.ret \in Branches
  /\ index_lookup[nodes[last.ret]] = last.ret

\* C8: every table entry (node -> idx) has idx live and nodes[idx] = node.
C8_NoStaleEntry ==
  \A n \in DOMAIN index_lookup :
    Live(nodes, index_lookup[n]) /\ nodes[index_lookup[n]] = n
C8_Witness ==
  /\ last.op = "remove_leaf"
  /\ fault = "none"
  /\ nodes[last.head] = None
  /\ DOMAIN index_lookup # {}

\* C9: after a completed set_node every live non-leaf slot has a count of at
\* least one and is reachable from an index a caller holds a root on.
C9_GarbageCollected ==
  (last.op = "set_node" /\ fault = "none") =>
    \A i \in Branches : Rc(i) >= 1 /\ i \in Reachable
\* the old head, a branch with a branch child, was collected by the call
C9_Witness ==
  /\ last.op = "set_node"
  /\ fault = "none"
  /\ last.ret # last.head
  /\ nodes[last.head] = None
  /\ Len(last.path) = 2

\* C10: get_root and set_node leave every registered leaf live, registered
\* and self-referential.
C10_LeavesPersist ==
  [][last'.op \in {"get_root", "set_node"} =>
       \A k \in 1 .. Len(leaves) :
         /\ \E m \in 1 .. Len(leaves') : leaves'[m] = leaves[k]
         /\ nodes'[leaves[k]] = NodeNew(leaves[k])]_vars
\* the cascade brought a leaf head to count zero and the leaf is still there
C10_Witness ==
  /\ last.op = "set_node"
  /\ fault = "none"
  /\ last.ret # last.head
  /\ IsLeaf(last.head)
  /\ Rc(last.head) = 0
  /\ nodes[last.head] = NodeNew(last.head)

\* C11: collapse scenario: after leaf B was written to every cell of an aligned
\* sub-cube of side 2^k (k < h) of a root taken with get_root(A), and leaf A was
\* written back to every one of those cells, as many arena slots are live as
\* before the edits and the head is again the index it was before them.
C11_Collapse ==
  (scen.kind = "collapse" /\ scen.phase = "done" /\ scen.k < scen.h) =>
    /\ fault = "none"
    /\ Cardinality(LiveSlots) = scen.before
    /\ scen.head = scen.head0
\* a sub-cube of eight cells of a volume two levels deep was filled and restored
C11_Witness ==
  /\ scen.kind = "collapse"
  /\ scen.phase = "done"
  /\ scen.h = 2
  /\ scen.k = 1
  /\ scen.head = scen.head0
  /\ last.op = "set_node"
  /\ last.head # last.ret

\* C12: with the two leaves empty = 0 and full = 1 and head = get_root(0) used
\* at height 2, once set_node(head, path_from(c, 2), 1) was applied for each of
\* the 64 cells c, exactly the two leaves are live and the head is leaf 1.
C12_FilledVolume ==
  (/\ scen.kind = "collapse" /\ scen.phase = "filled"
   /\ scen.h = 2 /\ scen.k = 2 /\ scen.a = 0 /\ scen.b = 1) =>
    /\ fault = "none"
    /\ leaves = <<0, 1>>
    /\ LiveSlots = {0, 1}
    /\ scen.head = 1
C12_Witness ==
  /\ scen.kind = "collapse"
  /\ scen.phase = "filled"
  /\ scen.h = 2
  /\ scen.k = 2
  /\ scen.a = 0
  /\ scen.b = 1
  /\ last.op = "set_node"
  /\ last.new_idx = 1
  /\ last.ret = 1
  /\ Len(last.path) = 2

\* C13: no live branch node has eight children that are all the same leaf: a
\* candidate with that content resolves to the leaf itself, at every depth.
C13_UniformIsLeaf ==
  \A i \in Branches : \A k \in 1 .. Len(leaves) : nodes[i] # NodeNew(leaves[k])
\* an edit two levels down made both levels uniform: the branch head was
\* collected and the leaf came back as the head
C13_Witness ==
  /\ last.op = "set_node"
  /\ fault = "none"
  /\ Len(last.path) = 2
  /\ nodes[last.head] = None
  /\ IsLeaf(last.ret)
  /\ last.ret = last.new_idx

\* C14: structural equality is identity: two live indices are equal exactly
\* when every path of a given length reads the same index below both; so two
\* handles that went through the same edits of different cells in opposite
\* orders (or through edits writing one value) hold the same head.
C14_Identity ==
  /\ \A r1 \in LiveSlots : \A r2 \in LiveSlots : \A m \in 1 .. MaxDepth :
       (r1 = r2) <=> SameReads(nodes, r1, nodes, r2, m)
  /\ (/\ scen.kind = "order" /\ scen.done = <<2, 2>> /\ fault = "none"
      /\ (scen.e[1].path # scen.e[2].path \/ scen.e[1].v = scen.e[2].v)) =>
       scen.heads[1] = scen.heads[2]
\* both handles took two edits of different cells, each writing the leaf the
\* root was not, and they meet on one branch
C14_Witness ==
  /\ scen.kind = "order"
  /\ scen.done = <<2, 2>>
  /\ scen.e[1].path # scen.e[2].path
  /\ scen.e[1].v # scen.a
  /\ scen.e[2].v # scen.a
  /\ scen.h = 2
  /\ scen.heads[1] = scen.heads[2]
  /\ scen.heads[1] \in Branches
  /\ roots[scen.heads[1]] = 2

\* the call made by this step left arena, table, registry and counts alone
GraphUnchanged ==
  /\ nodes' = nodes
  /\ ref_count' = ref_count
  /\ index_lookup' = index_lookup
  /\ leaves' = leaves
\* arena, table, registry and counts agree with one another
Consistent ==
  /\ \A i \in LiveSlots : \A c \in 1 .. COUNT : Live(nodes, nodes[i][c])
  /\ \A i \in LiveSlots : nodes[i] \in DOMAIN index_lookup /\ index_lookup[nodes[i]] = i
  /\ \A n \in DOMAIN index_lookup : Live(nodes, index_lookup[n]) /\ nodes[index_lookup[n]] = n
  /\ \A k \in 1 .. Len(leaves) : Live(nodes, leaves[k]) /\ nodes[leaves[k]] = NodeNew(leaves[k])
  /\ \A i \in LiveSlots : Rc(i) >= Cardinality(ParentRefs(i))

\* C15: a set_node call on a live head (a root reference held on it or not)
\* with a live new_idx either returns with arena, table, registry and counts
\* consistent, or faults having changed none of them.
C15_NoPartialFailure ==
  [][(/\ calls' = calls + 1 /\ last'.op = "set_node"
      /\ Live(nodes, last'.head) /\ Live(nodes, last'.new_idx)) =>
       IF fault' # "none" THEN GraphUnchanged ELSE Consistent']_vars

\* C16: path_from(cell, depth) panics whenever an axis of cell is >= 2^depth,
\* and returns no path for such a cell.
C16_OutOfRangePanics ==
  (/\ cpc # "start"
   /\ (cell.x >= Pow2(depth) \/ cell.y >= Pow2(depth) \/ cell.z >= Pow2(depth))) =>
    cpc = "panic" /\ path = <<>>
\* a cell whose y alone is out of range, by exactly one
C16_Witness ==
  /\ cpc = "panic"
  /\ depth >= 1
  /\ cell.y = Pow2(depth)
  /\ cell.x < Pow2(depth)
  /\ cell.z < Pow2(depth)

\* C17: _remove_leaf(L) faults when L is a registered leaf with a count above
\* zero and when L is not a registered leaf, and leaves arena, table, registry
\* and counts as they were.
C17_RemoveRejected ==
  [][(last'.op = "remove_leaf" /\ (~IsLeaf(last'.head) \/ Rc(last'.head) # 0)) =>
       fault' # "none" /\ GraphUnchanged]_vars
\* the removal of a leaf that a live branch still holds was refused
C17_Witness ==
  /\ last.op = "remove_leaf"
  /\ fault = "still needs leaf"
  /\ IsLeaf(last.head)
  /\ ParentRefs(last.head) # {}
  /\ nodes[last.head] = NodeNew(last.head)

\* C18: _remove_leaf(L) on a registered leaf whose count is zero (a leaf never
\* referenced since add_leaf included) completes without fault, frees the slot
\* and removes the table entry and the registry entry.
C18_RemoveUnreferenced ==
  [][(last'.op = "remove_leaf" /\ IsLeaf(last'.head) /\ Rc(last'.head) = 0) =>
       /\ fault' = "none"
       /\ nodes'[last'.head] = None
       /\ NodeNew(last'.head) \notin DOMAIN index_lookup'
       /\ \A k \in 1 .. Len(leaves') : leaves'[k] # last'.head]_vars

\* C19: descend and set_node fault whenever head, or an index reached while
\* following path, is not a live arena slot.
C19_DeadSlotFaults ==
  [][(/\ calls' = calls + 1 /\ last'.op \in {"descend", "set_node"}
      /\ LET t == get_trail(nodes, last'.head, last'.path)
         IN \E i \in 1 .. Len(t) : ~Live(nodes, t[i])) =>
       fault' # "none"]_vars

\* C20: a set_node or descend call on a root with a path whose length is not
\* the logical height of the root is rejected with a fault (stated for the
\* first such call on a root that get_root returned).
C20_LengthMismatchFaults ==
  [][(/\ calls' = calls + 1 /\ last'.op \in {"descend", "set_node"}
      /\ scen.kind = "any" /\ scen.any = 0 /\ roots[last'.head] > 0
      /\ Len(last'.path) # scen.height) =>
       fault' # "none"]_vars

\* the count of an index in a given ref_count
RcIn(rc, idx) == IF idx < Len(rc) THEN rc[idx + 1] ELSE 0

\* C21: get_root(idx) on a live index returns idx and raises the count of idx
\* by exactly one; no other count, no node, and neither the table nor the leaf
\* registry changes.
C21_GetRootFrame ==
  [][(calls' = calls + 1 /\ last'.op = "get_root") =>
       /\ fault' = "none"
       /\ last'.ret = last'.head
       /\ RcIn(ref_count', last'.head) = Rc(last'.head) + 1
       /\ \A i \in DOMAIN nodes : i # last'.head => Rc(i)' = Rc(i)
       /\ nodes' = nodes
       /\ index_lookup' = index_lookup
       /\ leaves' = leaves]_vars
\* a second reference taken on a branch that an edit had built
C21_Witness ==
  /\ last.op = "get_root"
  /\ last.head \in Branches
  /\ last.ret = last.head
  /\ roots[last.head] = 2
  /\ Rc(last.head) = 2

\* the index reached by one child() per selector, computed front to back
RECURSIVE Walk(_, _, _)
Walk(ns, head, p) ==
  IF p = <<>> THEN head ELSE Walk(ns, child(ns, head, Head(p)), Tail(p))

\* C22: descend(head, path) returns the index reached by applying child() once
\* per selector starting at head; once a leaf is reached the result is that
\* leaf; nothing in the graph changes.
C22_Descend ==
  [][(calls' = calls + 1 /\ last'.op = "descend") =>
       /\ fault' = "none"
       /\ last'.ret = Walk(nodes, last'.head, last'.path)
       /\ LET t == get_trail(nodes, last'.head, last'.path)
          IN \A i \in 1 .. Len(t) : IsLeaf(t[i]) => last'.ret = t[i]
       /\ GraphUnchanged]_vars
\* a path of two selectors from a branch whose child on the path is a leaf
C22_Witness ==
  /\ last.op = "descend"
  /\ fault = "none"
  /\ last.head \in Branches
  /\ Len(last.path) = 2
  /\ IsLeaf(child(nodes, last.head, last.path[1]))
  /\ last.ret = child(nodes, last.head, last.path[1])
  /\ \E c \in Children : child(nodes, last.head, c) # last.ret

\* the leaf registry is strictly ascending, is_leaf agrees with it, and every
\* registered leaf is a live self-referential node the table maps to its slot
LeafRegistryOK ==
  /\ \A k \in 1 .. (Len(leaves) - 1) : leaves[k] < leaves[k + 1]
  /\ \A i \in DOMAIN nodes : is_leaf(Graph(TRUE), i) <=> IsLeaf(i)
  /\ \A k \in 1 .. Len(leaves) :
       /\ Live(nodes, leaves[k])
       /\ nodes[leaves[k]] = NodeNew(leaves[k])
       /\ NodeNew(leaves[k]) \in DOMAIN index_lookup
       /\ index_lookup[NodeNew(leaves[k])] = leaves[k]

\* C23: add_leaf returns an index that was not live, stores the node of eight
\* children equal to that index, enters it into the table and keeps the
\* registry strictly ascending; after any calls is_leaf is true exactly for
\* the registered leaves.
C23_LeafRegistration ==
  [][/\ LeafRegistryOK'
     /\ (last'.op = "add_leaf" /\ Len(leaves') = Len(leaves) + 1) =>
          /\ ~Live(nodes, last'.ret)
          /\ ~IsLeaf(last'.ret)
          /\ nodes'[last'.ret] = NodeNew(last'.ret)
          /\ \E k \in 1 .. Len(leaves') : leaves'[k] = last'.ret]_vars
\* a leaf registered again in the slot of a removed one, in front of the other
C23_Witness ==
  /\ last.op = "add_leaf"
  /\ Len(ref_count) > 0
  /\ Len(leaves) = 2
  /\ last.ret = leaves[1]
  /\ roots[leaves[2]] > 0

\* the children, in order, of the entries of a level that are not leaves
RECURSIVE ExpandLevel(_, _)
ExpandLevel(level, i) ==
  IF i > Len(level) THEN <<>>
  ELSE (IF IsLeaf(level[i]) THEN <<>> ELSE nodes[level[i]]) \o ExpandLevel(level, i + 1)
\* a level followed by all the levels below it
RECURSIVE LevelsFrom(_)
LevelsFrom(level) ==
  IF level = <<>> THEN <<>> ELSE level \o LevelsFrom(ExpandLevel(level, 1))
\* the indices reachable from head through child links of nodes that are not leaves
RECURSIVE ReachStop(_)
ReachStop(S) ==
  LET T == S \cup {nodes[i][c] : i \in {j \in S : ~IsLeaf(j)}, c \in 1 .. COUNT}
  IN IF T = S THEN S ELSE ReachStop(T)

\* C24: bfs_nodes returns, level by level starting with head, every index
\* reachable from head through child links; it lists the leaves it reaches
\* and does not expand them.
C24_Bfs ==
  (last.op = "bfs_nodes") =>
    /\ fault = "none"
    /\ last.ret[1] = last.head
    /\ {last.ret[i] : i \in 1 .. Len(last.ret)} = ReachStop({last.head})
    /\ last.ret = LevelsFrom(<<last.head>>)
\* a branch two levels high: the head, its eight children, and the eight
\* children of the one child that is a branch
C24_Witness ==
  /\ last.op = "bfs_nodes"
  /\ last.head \in Branches
  /\ Len(last.ret) = 17
  /\ last.ret[2] \in Branches
  /\ IsLeaf(last.ret[17])

\* C29: set_node counts the new head before the cascade runs on the old one:
\* the index it returns is a live slot with a count of at least one.
C29_NewHeadKept ==
  [][SetNodeStep => Live(nodes', last'.ret) /\ RcIn(ref_count', last'.ret) >= 1]_vars
\* an empty path with new_idx a branch that only the old head referenced: the
\* old head was collected and the branch is now the root
C29_Witness ==
  /\ last.op = "set_node"
  /\ fault = "none"
  /\ last.path = <<>>
  /\ last.ret = last.new_idx
  /\ last.ret \in Branches
  /\ nodes[last.head] = None
  /\ Rc(last.ret) = 1
  /\ roots[last.ret] = 1

\* C30: set_node overwrites no slot (a slot live before and after the call
\* holds the same node), so every path from a root another handle holds reads
\* the same afterwards, also when that root is the edited head's own index.
C30_CopyOnWrite ==
  [][(scen.kind = "order" /\ scen'.done # scen.done /\ fault' = "none") =>
       /\ \A i \in DOMAIN nodes :
            (nodes[i] # None /\ nodes'[i] # None) => nodes'[i] = nodes[i]
       /\ \A r2 \in DOMAIN roots :
            (roots[r2] > 0 /\ (r2 # last'.head \/ roots[r2] >= 2)) =>
              \A m \in 1 .. MaxDepth : SameReads(nodes', r2, nodes, r2, m)]_vars
\* both handles were on one branch and one of them has moved on
C30_Witness ==
  /\ scen.kind = "order"
  /\ last.op = "set_node"
  /\ last.head \in Branches
  /\ last.ret # last.head
  /\ roots[last.head] = 1
  /\ scen.heads[1] # scen.heads[2]
  /\ last.head \in {scen.heads[1], scen.heads[2]}

\* C25: on every graph built by add_leaf, get_root and set_node the cascade
\* of decrement_ref empties its work-stack after finitely many turns of the
\* loop, and no slot is freed twice in one cascade.
C25_CascadeTerminates ==
  /\ [](\A i \in 1 .. Len(scen.freed) : \A j \in 1 .. Len(scen.freed) :
          i # j => scen.freed[i] # scen.freed[j])
  /\ (scen.phase = "run") ~> (scen.phase = "done" /\ scen.queue = <<>> /\ fault = "none")
\* a cascade that freed two slots and has come to its end
C25_Witness ==
  /\ scen.kind = "cascade"
  /\ scen.phase = "done"
  /\ scen.queue = <<>>
  /\ Len(scen.freed) >= 2
  /\ Live(nodes, scen.new_head)

\* C26: Zorder3d::new(q).to_coord() = q for every q in {0,1}^3, and
\* Zorder3d::new(s.to_coord()) = s for each of the eight selectors s.
C26_OctantRoundTrip ==
  /\ cpc \in {"coord", "selector", "unimplemented"} => out = cell
  /\ cpc # "unimplemented"
  /\ cpc = "selector" => path = <<ZorderNew(cell)>>

\* bit k of v
Bit(v, k) == (v \div Pow2(k)) % 2

\* C27: path_from(cell, depth) for an in-range cell returns depth selectors,
\* root first: the selector at position i (from 0) packs bit depth-1-i of x,
\* y and z.
C27_RootFirst ==
  cpc \in {"path", "cell"} =>
    /\ Len(path) = depth
    /\ \A i \in 0 .. (depth - 1) :
         path[i + 1] = Bit(cell.x, depth - 1 - i) + 2 * Bit(cell.y, depth - 1 - i)
                         + 4 * Bit(cell.z, depth - 1 - i)
\* two selectors that differ: the high bit is in y, the low bit in x
C27_Witness ==
  /\ cpc = "path"
  /\ depth = 2
  /\ cell = UVec3(1, 2, 0)
  /\ path = <<2, 1>>

\* C28: in the exported buffer every slot that holds no node reads as the
\* node of eight children u32::MAX, and every live slot as its node.
C28_ExportSentinel ==
  (last.op = "export") =>
    \A i \in DOMAIN last.ret :
      last.ret[i] = IF Live(nodes, i) THEN nodes[i] ELSE NodeNew(U32Max)

\* a step of set_node that changed the graph
SetNodeChanged ==
  /\ last'.op = "set_node"
  /\ fault' = "none"
  /\ (nodes' # nodes \/ ref_count' # ref_count)
\* the slots a step allocated: holding no node before and a node after
Fresh == {i \in DOMAIN nodes : nodes[i] = None /\ nodes'[i] # None}

\* C31: one set_node call allocates at most path.len() arena slots and
\* inserts at most path.len() table entries.
C31_BoundedWork ==
  [][SetNodeStep =>
       /\ Cardinality(Fresh) <= Len(last'.path)
       /\ Cardinality((DOMAIN index_lookup') \ (DOMAIN index_lookup)) <= Len(last'.path)]_vars
\* the first edit of a run, two levels deep: one new slot per level
C31_Witness ==
  /\ last.op = "set_node"
  /\ fault = "none"
  /\ calls = 2
  /\ Len(last.path) = 2
  /\ Cardinality(Branches) = 2
  /\ Cardinality(DOMAIN index_lookup) = Len(leaves) + 2

\* C32: get_trail(head, path) has path.len() + 1 elements, starts with head,
\* element k+1 is the child of element k that path[k] selects, the last
\* element is where the path leads, and a leaf reached early is repeated.
C32_Trail ==
  \A head \in LiveSlots : \A p \in Paths :
    LET t == get_trail(nodes, head, p)
    IN /\ Len(t) = Len(p) + 1
       /\ t[1] = head
       /\ \A k \in 1 .. Len(p) :
            /\ Live(nodes, t[k])
            /\ t[k + 1] = nodes[t[k]][p[k] + 1]
            /\ IsLeaf(t[k]) => t[k + 1] = t[k]
       /\ t[Len(t)] = Walk(nodes, head, p)
\* a walk of two selectors that is on a leaf after the first
C32_Witness ==
  /\ last.op = "descend"
  /\ last.head \in Branches
  /\ Len(last.path) = 2
  /\ LET t == get_trail(nodes, last.head, last.path)
     IN /\ Len(t) = 3
        /\ IsLeaf(t[2])
        /\ t[3] = t[2]
        /\ t[2] # t[1]

\* C35: every child index stored in a live node is a live arena slot.
C35_NoDangling ==
  \A i \in LiveSlots : \A c \in 1 .. COUNT : Live(nodes, nodes[i][c])
\* the cascade has freed the old head, and the branches left have live children
C35_Witness ==
  /\ last.op = "set_node"
  /\ fault = "none"
  /\ nodes[last.head] = None
  /\ Branches # {}
  /\ \E b \in Branches : \E c \in 1 .. COUNT : nodes[b][c] \in Branches

\* C36: the only cycles of the child relation are the self-loops of leaves:
\* no branch is reachable from itself through child links.
C36_Acyclic ==
  /\ \A b \in Branches : b \notin ReachFrom({nodes[b][c] : c \in 1 .. COUNT})
  /\ \A k \in 1 .. Len(leaves) :
       Live(nodes, leaves[k]) => \A c \in 1 .. COUNT : nodes[leaves[k]][c] = leaves[k]
\* a single handle, back on a leaf after earlier edits, has built a branch in
\* a slot below one that was counted before: the slot is in use a second time
C36_Witness ==
  /\ last.op = "set_node"
  /\ fault = "none"
  /\ IsLeaf(last.head)
  /\ Branches = {last.ret}
  /\ Len(ref_count) > last.ret + 1
  /\ \A i \in DOMAIN roots : roots[i] = IF i = last.ret THEN 1 ELSE 0

\* C37: set_node(head, path, v) returns an index other than head whenever
\* descend(head, path) was not v; it returns head only when nothing is to do.
C37_NewIndex ==
  [][SetNodeStep =>
       (last'.ret = last'.head <=>
          descend(nodes, last'.head, last'.path) = last'.new_idx)]_vars
\* an edit two levels deep from a head that another handle keeps: both
\* indices stay live
C37_Witness ==
  /\ last.op = "set_node"
  /\ fault = "none"
  /\ last.ret # last.head
  /\ Len(last.path) = 2
  /\ Live(nodes, last.head)
  /\ last.ret \in Branches
  /\ roots[last.head] >= 1
  /\ descend(nodes, last.head, last.path) # last.new_idx
  /\ descend(nodes, last.ret, last.path) = last.new_idx

\* C38: every arena slot that holds no node has a count of zero or no count
\* at all, so a slot taken again by an allocation starts at zero.
C38_FreedCarryNone ==
  \A i \in DOMAIN nodes : nodes[i] = None => Rc(i) = 0
\* a leaf allocated into a slot that ref_count already has an entry for
C38_Witness ==
  /\ last.op = "add_leaf"
  /\ fault = "none"
  /\ last.ret + 1 < Len(ref_count)
  /\ Rc(last.ret) = 0
  /\ \E i \in DOMAIN nodes : i > last.ret /\ Rc(i) > 0

\* C39: in one run of propagate_change every level above a level that
\* allocated a node allocates one too, and every slot the call allocated has
\* a count of at least one when the call returns.
C39_MissesStack ==
  [][SetNodeChanged =>
       LET p  == last'.path
           st == PropagateSteps(Graph(TRUE), p, get_trail(nodes, last'.head, p),
                                Len(p) - 1, last'.new_idx, <<>>)
       IN /\ Len(st) = Len(p)
          /\ Len(p) > 0 => st[Len(st)].idx = last'.ret
          /\ \A i \in 1 .. Len(st) : \A j \in 1 .. Len(st) :
               (i < j /\ st[i].miss) => st[j].miss
          /\ \A i \in 1 .. Len(st) : st[i].miss <=> st[i].idx \in Fresh
          /\ \A i \in Fresh : RcIn(ref_count', i) >= 1]_vars
\* a deepest level that found its node in the table below a level that did not
C39_Witness ==
  /\ last.op = "set_node"
  /\ fault = "none"
  /\ Len(last.path) = 2
  /\ last.ret \in Branches
  /\ Rc(last.ret) = 1
  /\ Rc(child(nodes, last.ret, last.path[1])) >= 2
  /\ child(nodes, last.ret, last.path[1]) \in Branches

\* C33: the trail of the older engine starts with start, holds one index per
\* selector followed, and ends at the first node whose selected child is
\* itself: it has at most path.len() + 1 elements and its last element is
\* the index the path resolves to.
C33_LegacyTrail ==
  fault = "none" =>
  \A start \in LiveSlots : \A p \in Paths :
    LET t == legacy_get_trail(nodes, start, p)
    IN /\ Len(t) <= Len(p) + 1
       /\ t[1] = start
       /\ \A k \in 1 .. (Len(t) - 1) :
            t[k + 1] = nodes[t[k]][p[k] + 1] /\ t[k + 1] # t[k]
       /\ Len(t) < Len(p) + 1 => nodes[t[Len(t)]][p[Len(t)] + 1] = t[Len(t)]
       /\ t[Len(t)] = Walk(nodes, start, p)
\* from the head an edit returned, a path of two selectors that is on a leaf
\* after the first: the trail has two elements
C33_Witness ==
  /\ scen.kind = "legacy"
  /\ last.op = "set_node"
  /\ fault = "none"
  /\ last.ret >= NumLeaves
  /\ \E p \in Paths :
       /\ Len(p) = 2
       /\ Len(legacy_get_trail(nodes, last.ret, p)) = 2
       /\ legacy_get_trail(nodes, last.ret, p)[2] < NumLeaves

\* C34: when set_node of the older engine misses the table for a candidate
\* whose old node is no leaf and has status 2, it writes the candidate into
\* that slot, moves the table entry from the old content to the new one at
\* the same index, and returns start; afterwards descend(start, path) is
\* new_pointer and no two live slots hold the same content.
C34_InPlace ==
  [][(/\ scen.kind = "legacy" /\ calls' = calls + 1 /\ last'.op = "set_node"
      /\ scen.height >= Len(last'.path)
      /\ legacy_propagate_change(LegacyGraph, last'.path,
                                 legacy_get_trail(nodes, last'.head, last'.path),
                                 last'.new_idx, last'.head).early # None
      /\ legacy_descend(nodes, last'.head, scen.height, last'.path) # last'.new_idx) =>
       LET r == legacy_propagate_change(LegacyGraph, last'.path,
                                        legacy_get_trail(nodes, last'.head, last'.path),
                                        last'.new_idx, last'.head)
       IN /\ fault' = "none"
          /\ scen'.early = r.old_parent
          /\ nodes'[r.old_parent] = r.early
          /\ nodes[r.old_parent] \notin DOMAIN index_lookup'
          /\ r.early \in DOMAIN index_lookup'
          /\ index_lookup'[r.early] = r.old_parent
          /\ last'.ret = last'.head
          /\ legacy_descend(nodes', last'.head, scen.height, last'.path) = last'.new_idx
          /\ \A i \in DOMAIN nodes : \A j \in DOMAIN nodes :
               (i # j /\ nodes'[i] # None /\ nodes'[j] # None) => nodes'[i] # nodes'[j]]_vars

====
